---- MODULE Spec2Model ----
(***************************************************************************)
(* The authenticated API-access layer of the tutor-admin dashboard:        *)
(*   - the session store (useAuthStore: token, user, isLoggedIn),          *)
(*   - the HTTP client wrapper (axiosInstance and its two interceptors),   *)
(*   - the route guard (ProtectedRoute inside AppRouter),                  *)
(*   - the pages that drive them (Login, Register, AdminLayout, and the    *)
(*     admin pages as issuers of authenticated requests).                  *)
(*                                                                         *)
(* Execution model: a single-threaded event loop.  A macrotask (a user     *)
(* event, a network response reaching the response interceptor, a process  *)
(* start) is one action.  The continuation of the caller awaiting a        *)
(* settled request runs in the microtask queue, i.e. before any other      *)
(* macrotask: while `pending` holds a settled call only Deliver is enabled.*)
(* A store change re-renders the subscribed ProtectedRoute, so every       *)
(* action that changes the store ends with a re-render of the router.      *)
(***************************************************************************)
EXTENDS Naturals, Sequences, FiniteSets, Bags, TLC

\* ------------------------------------------------------------------ bounds
MaxInFlight == 2

\* -------------------------------------------------------- program constants
Unauthorized == 401

\* ------------------------------------------------------------- value sets
NoToken == "<absent>"
NoUser == "<no-user>"
NoHeader == "<no-header>"
None == "<none>"

Tokens == {"tok-1", "tok-2"}
UserRecords == {"u1", "u2"}
\* The accounts the backend knows: the token it issues and the user it names.
Accounts == {[token |-> "tok-1", user |-> "u1"], [token |-> "tok-2", user |-> "u2"]}

\* axios default validateStatus: 2xx fulfils, every other status rejects.
\* Status 0 stands for a network failure: the error carries no response.
SuccessStatuses == {200}
ErrorStatuses == {400, Unauthorized, 500}

LoginPath == "/login"
RegisterPath == "/register"
DashboardPath == "/admin/dashboard"
AdminPaths == {"/admin", DashboardPath, "/admin/users"}
Paths == {"/", LoginPath, RegisterPath} \cup AdminPaths

VARIABLES
    authStore,       \* useAuthStore state: [token, user, isLoggedIn]
    localStorage,    \* value under key 'authToken' (persists across restarts)
    sessionStorage,  \* value under key 'authToken' (tab lifetime)
    persistedUser,   \* durable copy of the session's user kept by the store
    inflight,        \* bag of requests transmitted and not yet answered
    pending,         \* the call just settled by the response interceptor (with the
                     \* token the store held when its response arrived)
    location,        \* the router's current path
    guard,           \* history: the last evaluation of ProtectedRoute
    lastOp,          \* history: the operation performed by the last step
    loginTok,        \* history: token of the last login() of this process
    since401         \* history: a 401 forced a logout and no login followed

vars == <<authStore, localStorage, sessionStorage, persistedUser, inflight,
          pending, location, guard, lastOp, loginTok, since401>>

durable == <<localStorage, sessionStorage, persistedUser>>

\* State of the pages behind the route guard. A page exists while it is
\* mounted; the session behaviours below run with no page mounted.
VARIABLES
    dashKind,        \* the dashboard page mounted: "Dashboard" | "TeacherDashboard"
    outcome,         \* the backend's reply to each of the dashboard's fetches
    dash,            \* dash[v]: component state of visit v of the dashboard
    listKind,        \* the list page mounted: "Users" | "Courses" | "Teachers" | "Coupons"
    list,            \* component state of the list page (the useState slices)
    fetches,         \* bag of list requests transmitted and not yet answered
    listOp,          \* history: the list page's handler run by the last step
    shown,           \* what the last catch block displayed, and for which failure
    hook,            \* a useDebounce instance: input value, debounced value, timers
    crud,            \* the list page's drawer, form and delete handlers
    editor,          \* component state of the course editor
    loginPage        \* component state of the Login page

formVars == <<hook, crud, editor, loginPage>>

pageVars == <<dashKind, outcome, dash, listKind, list, fetches, listOp, shown, formVars>>

allVars == <<vars, pageVars>>

\* The dashboard, the list page, the page whose catch block ran: not mounted.
DashUnmounted == dashKind = None /\ outcome = <<>> /\ dash = <<>>

ListUnmounted ==
    listKind = None /\ list = <<>> /\ fetches = EmptyBag /\ listOp = None

NothingShown == shown = <<>>

FormsUnmounted == hook = <<>> /\ crud = <<>> /\ editor = <<>> /\ loginPage = <<>>

PagesUnmounted == DashUnmounted /\ ListUnmounted /\ NothingShown /\ FormsUnmounted

\* ------------------------------------------------------------ session store
Anonymous == [token |-> NoToken, user |-> NoUser, isLoggedIn |-> FALSE]

\* login(token, user): overwrite the session, isLoggedIn = true.
StoreLogin(t, u) == [token |-> t, user |-> u, isLoggedIn |-> TRUE]

\* logout(): clear token and user, isLoggedIn = false.
StoreLogout == Anonymous

\* getState().token
getToken == authStore.token

\* The store's login as a step: the session is overwritten and made durable.
login(t, u) ==
    /\ authStore' = StoreLogin(t, u)
    /\ persistedUser' = u

\* The store's logout as a step: the session is cleared and every durable
\* copy is removed.
logout ==
    /\ authStore' = StoreLogout
    /\ persistedUser' = NoUser
    /\ localStorage' = NoToken
    /\ sessionStorage' = NoToken

\* Process start: the session is reconstructed from durable storage if a
\* token is present there, else it is Anonymous.  `d` is the durable token
\* found (NoToken when neither scope holds one).
StoreRestore(d, u) ==
    IF d = NoToken THEN Anonymous
    ELSE [token |-> d, user |-> u, isLoggedIn |-> TRUE]

\* ------------------------------------------------------- HTTP client wrapper
\* JavaScript truthiness of a token value: absent and '' are falsy.
Truthy(t) == t # NoToken /\ t # ""

\* A request configuration as a page hands it to axios.
Config(caller, remember) ==
    [caller |-> caller, remember |-> remember, Authorization |-> NoHeader]

\* Faulty variant: the token is read from the persistent storage scope instead of
\* the store.
RequestInterceptor_FromStorage(config) ==
    LET token == localStorage IN
    IF Truthy(token)
    THEN [config EXCEPT !.Authorization = "Bearer " \o token]
    ELSE config

\* Request interceptor: the token is read from the store at interception
\* time and, when there is one, attached as `Bearer <token>`.
RequestInterceptor(config) ==
    LET token == authStore.token IN
    IF Truthy(token)
    THEN [config EXCEPT !.Authorization = "Bearer " \o token]
    ELSE config

\* What the network hands back for a request.
Reply(hasResponse, status, t, u) ==
    [hasResponse |-> hasResponse, status |-> status, token |-> t, user |-> u]

SuccessReplies(caller) ==
    IF caller \in {"login", "register"}
    THEN {Reply(TRUE, st, a.token, a.user) : st \in SuccessStatuses, a \in Accounts}
    ELSE {Reply(TRUE, st, NoToken, NoUser) : st \in SuccessStatuses}

ErrorReplies ==
    {Reply(TRUE, st, NoToken, NoUser) : st \in ErrorStatuses}
        \cup {Reply(FALSE, 0, NoToken, NoUser)}

\* Response interceptor, success handler: the response passes through.
ResponseHandler(response) ==
    [state |-> "fulfilled", value |-> response, logoutCalls |-> 0]

\* error.response?.status === 401
Is401(error) == error.hasResponse /\ error.status = Unauthorized

\* Faulty variant: the error handler returns the error instead of rejecting with it.
ResponseErrorHandler_Swallow(error) ==
    [state |-> "fulfilled", value |-> error,
     logoutCalls |-> IF Is401(error) THEN 1 ELSE 0]

\* Faulty variant: every error that carries a response logs the session out.
ResponseErrorHandler_AnyStatus(error) ==
    [state |-> "rejected", value |-> error,
     logoutCalls |-> IF error.hasResponse THEN 1 ELSE 0]

\* Faulty variant: a missing response is treated like a 401.
ResponseErrorHandler_NoResponse(error) ==
    [state |-> "rejected", value |-> error,
     logoutCalls |-> IF ~error.hasResponse \/ Is401(error) THEN 1 ELSE 0]

\* Faulty variant: the 401 branch is missing.
ResponseErrorHandler_NoLogout(error) ==
    [state |-> "rejected", value |-> error, logoutCalls |-> 0]

\* Response interceptor, error handler: logout on a 401, then reject with
\* the error it was given.
ResponseErrorHandler(error) ==
    [state |-> "rejected", value |-> error,
     logoutCalls |-> IF Is401(error) THEN 1 ELSE 0]

\* ---------------------------------------------------------------- routing
\* An element a route evaluates to: a redirect or a rendered subtree.
NavigateTo(path) == [kind |-> "Navigate", to |-> path]
Rendered(path) == [kind |-> "render", to |-> path]

\* Faulty variant: the guard renders its children whatever the session.
ProtectedRoute_NoGuard(isLoggedIn, children) == Rendered(children)

ProtectedRoute(isLoggedIn, children) ==
    IF ~isLoggedIn THEN NavigateTo(LoginPath) ELSE Rendered(children)

\* The element AppRouter's <Routes> yields for a path.
AppRouter(path, isLoggedIn) ==
    CASE path = LoginPath -> Rendered(LoginPath)
      [] path \in AdminPaths ->
            LET g == ProtectedRoute(isLoggedIn, path) IN
            IF g.kind = "render" /\ path = "/admin"
            THEN NavigateTo(DashboardPath) ELSE g
      [] path = "/" -> NavigateTo(DashboardPath)
      [] OTHER -> Rendered(path)

\* The path shown once every <Navigate> has been followed.
RECURSIVE Resolve(_, _)
Resolve(path, isLoggedIn) ==
    LET e == AppRouter(path, isLoggedIn) IN
    IF e.kind = "Navigate" THEN Resolve(e.to, isLoggedIn) ELSE e.to

\* The /admin/* path whose guard is evaluated when `path` is requested.
GuardedPath(path) ==
    IF path \in AdminPaths THEN path
    ELSE IF path = "/" THEN DashboardPath ELSE None

\* Rendering the router for `path` under the given login state.
Render(path, isLoggedIn) ==
    /\ location' = Resolve(path, isLoggedIn)
    /\ guard' = IF GuardedPath(path) = None THEN <<>>
                ELSE <<[isLoggedIn |-> isLoggedIn,
                        children |-> GuardedPath(path),
                        result |-> ProtectedRoute(isLoggedIn, GuardedPath(path))]>>

\* ------------------------------------------------------------------- state
InAdmin == location \in AdminPaths
Idle == pending = <<>>
Room == BagCardinality(inflight) < MaxInFlight
InFlight == BagToSet(inflight)

\* Durable tokens a starting process can find.
DurableTokens(ls, ss) == {ls, ss} \ {NoToken}

\* Process start in a browser whose durable storage is (ls, ss, pu) and
\* whose address bar holds `path`.
Start(ls, ss, pu, path) ==
    \E d \in (IF DurableTokens(ls, ss) = {} THEN {NoToken} ELSE DurableTokens(ls, ss)) :
        /\ authStore' = StoreRestore(d, pu)
        /\ persistedUser' = IF d = NoToken THEN NoUser ELSE pu
        /\ localStorage' = ls
        /\ sessionStorage' = ss
        /\ inflight' = EmptyBag
        /\ pending' = <<>>
        /\ Render(path, d # NoToken)
        /\ lastOp' = "start"
        /\ loginTok' = NoToken

Init ==
    /\ authStore = Anonymous
    /\ localStorage = NoToken
    /\ sessionStorage = NoToken
    /\ persistedUser = NoUser
    /\ inflight = EmptyBag
    /\ pending = <<>>
    /\ \E path \in Paths :
          /\ location = Resolve(path, FALSE)
          /\ guard = IF GuardedPath(path) = None THEN <<>>
                     ELSE <<[isLoggedIn |-> FALSE, children |-> GuardedPath(path),
                             result |-> ProtectedRoute(FALSE, GuardedPath(path))]>>
    /\ lastOp = "start"
    /\ loginTok = NoToken
    /\ since401 = FALSE
    /\ PagesUnmounted

\* ----------------------------------------------------------------- actions
\* The page reloads: both storage scopes survive, requests in flight die.
Reload ==
    /\ Idle
    /\ Start(localStorage, sessionStorage, persistedUser, location)
    /\ UNCHANGED since401

\* The browser restarts: the tab-lifetime scope is gone.
Restart ==
    /\ Idle
    /\ \E path \in Paths : Start(localStorage, NoToken, persistedUser, path)
    /\ UNCHANGED since401

\* axiosInstance.<verb>(...): the request interceptor runs, then the request
\* is transmitted.
Send(config) ==
    /\ Room
    /\ inflight' = inflight (+) SetToBag({RequestInterceptor(config)})

\* Faulty variant: the submit handler clears the session before it asks for a new one.
LoginSubmit_ClearsSession ==
    /\ Idle
    /\ location = LoginPath
    /\ \E rememberMe \in BOOLEAN : Send(Config("login", rememberMe))
    /\ logout
    /\ Render(location, authStore'.isLoggedIn)
    /\ lastOp' = "request"
    /\ UNCHANGED <<pending, loginTok, since401>>

\* Login.handleSubmit up to its await.  The submit button is disabled while
\* the mounted page is loading; a submission made while a login request is in
\* flight is that of a page mounted again after leaving /login.
LoginSubmit ==
    /\ Idle
    /\ location = LoginPath
    /\ \E rememberMe \in BOOLEAN : Send(Config("login", rememberMe))
    /\ lastOp' = "request"
    /\ UNCHANGED <<authStore, durable, pending, location, guard, loginTok, since401>>

\* Register.handleSubmit up to its await (the form passed validation).
\* AppRouter has no route for the Register page; the page is taken to be
\* shown at RegisterPath, where AppRouter itself renders nothing.  Its
\* handler does what Login's does with rememberMe false.
RegisterSubmit ==
    /\ Idle
    /\ location = RegisterPath
    /\ Send(Config("register", FALSE))
    /\ lastOp' = "request"
    /\ UNCHANGED <<authStore, durable, pending, location, guard, loginTok, since401>>

\* Any admin page issuing a fetch or a mutation.
PageRequest ==
    /\ Idle
    /\ InAdmin
    /\ Send(Config("page", FALSE))
    /\ lastOp' = "request"
    /\ UNCHANGED <<authStore, durable, pending, location, guard, loginTok, since401>>

\* A 2xx response reaches the response interceptor.
RespondSuccess ==
    /\ Idle
    /\ \E r \in InFlight : \E response \in SuccessReplies(r.caller) :
          LET h == ResponseHandler(response) IN
          /\ inflight' = inflight (-) SetToBag({r})
          /\ pending' = <<[req |-> r, received |-> response, state |-> h.state,
                           value |-> h.value, logoutCalls |-> h.logoutCalls,
                           held |-> authStore.token]>>
    /\ lastOp' = "response"
    /\ UNCHANGED <<authStore, durable, location, guard, loginTok, since401>>

\* Faulty variant: on a 401 the interceptor logs out and transmits the request
\* again instead of settling the call.
RespondError_Retry ==
    /\ Idle
    /\ \E r \in InFlight : \E error \in ErrorReplies :
          LET h == ResponseErrorHandler(error) IN
          IF h.logoutCalls > 0
          THEN /\ logout
               /\ Render(location, authStore'.isLoggedIn)
               /\ inflight' = (inflight (-) SetToBag({r}))
                                 (+) SetToBag({[r EXCEPT !.Authorization = NoHeader]})
               /\ pending' = <<>>
               /\ lastOp' = "forcedLogout"
               /\ since401' = TRUE
               /\ loginTok' = NoToken
          ELSE /\ inflight' = inflight (-) SetToBag({r})
               /\ pending' = <<[req |-> r, received |-> error, state |-> h.state,
                                value |-> h.value, logoutCalls |-> h.logoutCalls,
                           held |-> authStore.token]>>
               /\ lastOp' = "response"
               /\ UNCHANGED <<authStore, durable, location, guard, since401, loginTok>>

\* Faulty variant: the interceptor logs out only when the failed request
\* carried the token the store holds now.
RespondError_SameTokenOnly ==
    /\ Idle
    /\ \E r \in InFlight : \E error \in ErrorReplies :
          LET h == ResponseErrorHandler(error) IN
          /\ inflight' = inflight (-) SetToBag({r})
          /\ pending' = <<[req |-> r, received |-> error, state |-> h.state,
                           value |-> h.value, logoutCalls |-> h.logoutCalls,
                           held |-> authStore.token]>>
          /\ IF h.logoutCalls > 0 /\ r.Authorization = "Bearer " \o authStore.token
             THEN logout /\ Render(location, authStore'.isLoggedIn)
             ELSE UNCHANGED <<authStore, durable, location, guard>>
          /\ lastOp' = IF error.status = 401 THEN "forcedLogout" ELSE "response"
          /\ since401' = (since401 \/ error.status = 401)
          /\ loginTok' = IF error.status = 401 THEN NoToken ELSE loginTok

\* An error (non-2xx status or network failure) reaches the response
\* interceptor; a logout it performs re-renders the guarded route.
RespondError ==
    /\ Idle
    /\ \E r \in InFlight : \E error \in ErrorReplies :
          LET h == ResponseErrorHandler(error) IN
          /\ inflight' = inflight (-) SetToBag({r})
          /\ pending' = <<[req |-> r, received |-> error, state |-> h.state,
                           value |-> h.value, logoutCalls |-> h.logoutCalls,
                           held |-> authStore.token]>>
          /\ IF h.logoutCalls > 0
             THEN logout /\ Render(location, authStore'.isLoggedIn)
             ELSE UNCHANGED <<authStore, durable, location, guard>>
          \* history: what arrived, whatever the handler made of it
          /\ lastOp' = IF error.status = 401 THEN "forcedLogout" ELSE "response"
          /\ since401' = (since401 \/ error.status = 401)
          /\ loginTok' = IF error.status = 401 THEN NoToken ELSE loginTok

\* Faulty variant: the user of the response is not handed to login.
LoginFulfilled_NoUser ==
    /\ pending # <<>>
    /\ pending[1].state = "fulfilled"
    /\ pending[1].req.caller = "login"
    /\ LET data == pending[1].value IN
          /\ login(data.token, NoUser)
          /\ IF pending[1].req.remember
             THEN localStorage' = data.token /\ UNCHANGED sessionStorage
             ELSE sessionStorage' = data.token /\ UNCHANGED localStorage
          /\ loginTok' = data.token
    /\ Render(DashboardPath, authStore'.isLoggedIn)
    /\ pending' = <<>>
    /\ lastOp' = "login"
    /\ since401' = FALSE
    /\ UNCHANGED inflight

\* Faulty variant: the token is read from a field the response does not have, so
\* login is called with an absent token.
LoginFulfilled_NoTokenField ==
    /\ pending # <<>>
    /\ pending[1].state = "fulfilled"
    /\ pending[1].req.caller = "login"
    /\ LET data == pending[1].value IN
          /\ login(NoToken, data.user)
          /\ IF pending[1].req.remember
             THEN localStorage' = NoToken /\ UNCHANGED sessionStorage
             ELSE sessionStorage' = NoToken /\ UNCHANGED localStorage
          /\ loginTok' = NoToken
    /\ Render(DashboardPath, authStore'.isLoggedIn)
    /\ pending' = <<>>
    /\ lastOp' = "login"
    /\ since401' = FALSE
    /\ UNCHANGED inflight

\* Faulty variant: login is skipped when a session is already held.
LoginFulfilled_KeepsSession ==
    /\ pending # <<>>
    /\ pending[1].state = "fulfilled"
    /\ pending[1].req.caller = "login"
    /\ LET data == pending[1].value IN
          /\ IF authStore.isLoggedIn
             THEN UNCHANGED <<authStore, persistedUser>>
             ELSE login(data.token, data.user)
          /\ IF pending[1].req.remember
             THEN localStorage' = data.token /\ UNCHANGED sessionStorage
             ELSE sessionStorage' = data.token /\ UNCHANGED localStorage
          /\ loginTok' = authStore'.token
    /\ Render(DashboardPath, authStore'.isLoggedIn)
    /\ pending' = <<>>
    /\ lastOp' = "login"
    /\ since401' = FALSE
    /\ UNCHANGED inflight

\* Faulty variant: the handler navigates before it calls login, so the route
\* guard is evaluated on the session as it was.
LoginFulfilled_NavigateFirst ==
    /\ pending # <<>>
    /\ pending[1].state = "fulfilled"
    /\ pending[1].req.caller = "login"
    /\ LET data == pending[1].value IN
          /\ login(data.token, data.user)
          /\ IF pending[1].req.remember
             THEN localStorage' = data.token /\ UNCHANGED sessionStorage
             ELSE sessionStorage' = data.token /\ UNCHANGED localStorage
          /\ loginTok' = data.token
    /\ Render(DashboardPath, authStore.isLoggedIn)
    /\ pending' = <<>>
    /\ lastOp' = "login"
    /\ since401' = FALSE
    /\ UNCHANGED inflight

\* Login.handleSubmit after a fulfilled await: login, durable write, navigate.
LoginFulfilled ==
    /\ pending # <<>>
    /\ pending[1].state = "fulfilled"
    /\ pending[1].req.caller = "login"
    /\ LET data == pending[1].value IN
          /\ login(data.token, data.user)
          /\ IF pending[1].req.remember
             THEN localStorage' = data.token /\ UNCHANGED sessionStorage
             ELSE sessionStorage' = data.token /\ UNCHANGED localStorage
          /\ loginTok' = data.token
    /\ Render(DashboardPath, authStore'.isLoggedIn)
    /\ pending' = <<>>
    /\ lastOp' = "login"
    /\ since401' = FALSE
    /\ UNCHANGED inflight

\* Register.handleSubmit after a fulfilled await.
RegisterFulfilled ==
    /\ pending # <<>>
    /\ pending[1].state = "fulfilled"
    /\ pending[1].req.caller = "register"
    /\ LET data == pending[1].value IN
          /\ login(data.token, data.user)
          /\ sessionStorage' = data.token
          /\ loginTok' = data.token
    /\ Render(DashboardPath, authStore'.isLoggedIn)
    /\ pending' = <<>>
    /\ lastOp' = "login"
    /\ since401' = FALSE
    /\ UNCHANGED <<inflight, localStorage>>

\* A page's continuation after a fulfilled fetch or mutation: view state only.
PageFulfilled ==
    /\ pending # <<>>
    /\ pending[1].state = "fulfilled"
    /\ pending[1].req.caller = "page"
    /\ pending' = <<>>
    /\ lastOp' = "settled"
    /\ UNCHANGED <<authStore, durable, inflight, location, guard, loginTok, since401>>

\* Any caller's catch block: the error is shown, the session is not touched.
CallerCatch ==
    /\ pending # <<>>
    /\ pending[1].state = "rejected"
    /\ pending' = <<>>
    /\ lastOp' = "catch"
    /\ UNCHANGED <<authStore, durable, inflight, location, guard, loginTok, since401>>

\* Faulty variant: the handler navigates to /login without calling logout().
HandleLogout_NavigateOnly ==
    /\ Idle
    /\ InAdmin
    /\ Render(LoginPath, authStore.isLoggedIn)
    /\ lastOp' = "logout"
    /\ loginTok' = NoToken
    /\ UNCHANGED <<authStore, durable, inflight, pending, since401>>

\* AdminLayout.handleLogout: logout(), then navigate('/login').
HandleLogout ==
    /\ Idle
    /\ InAdmin
    /\ logout
    /\ Render(LoginPath, authStore'.isLoggedIn)
    /\ lastOp' = "logout"
    /\ loginTok' = NoToken
    /\ UNCHANGED <<inflight, pending, since401>>

\* The user follows a link or edits the address within the running app.
GoTo ==
    /\ Idle
    /\ \E path \in Paths : Render(path, authStore.isLoggedIn)
    /\ lastOp' = "navigate"
    /\ UNCHANGED <<authStore, durable, inflight, pending, loginTok, since401>>

\* The session's steps; no page is mounted, so the page state stays as it is.
Next ==
    \/ Reload /\ UNCHANGED pageVars
    \/ Restart /\ UNCHANGED pageVars
    \/ LoginSubmit /\ UNCHANGED pageVars
    \/ RegisterSubmit /\ UNCHANGED pageVars
    \/ PageRequest /\ UNCHANGED pageVars
    \/ RespondSuccess /\ UNCHANGED pageVars
    \/ RespondError /\ UNCHANGED pageVars
    \/ LoginFulfilled /\ UNCHANGED pageVars
    \/ RegisterFulfilled /\ UNCHANGED pageVars
    \/ PageFulfilled /\ UNCHANGED pageVars
    \/ CallerCatch /\ UNCHANGED pageVars
    \/ HandleLogout /\ UNCHANGED pageVars
    \/ GoTo /\ UNCHANGED pageVars

Spec == Init /\ [][Next]_allVars

\* ------------------------------------------------------------------ claims
Settled == pending[1]
Bearer(t) == "Bearer " \o t

\* C1: for every response with status 401 the response interceptor calls
\* logout exactly once, the session is Anonymous when the caller is resumed,
\* and the call is rejected with the very error that arrived; the 401 always
\* settles its call and the next step is the caller's catch block (it is
\* neither dropped nor turned into a fulfilled result).
C1_UnauthorizedLogsOutAndRejects ==
    /\ [](pending # <<>> /\ Settled.received.status = 401
            => /\ Settled.logoutCalls = 1
               /\ authStore = Anonymous
               /\ Settled.state = "rejected"
               /\ Settled.value = Settled.received)
    /\ [][lastOp' = "forcedLogout" => pending' # <<>>]_vars
    /\ [][pending # <<>> /\ Settled.received.status = 401 => lastOp' = "catch"]_vars

C1_Witness ==
    /\ pending # <<>>
    /\ Settled.received.status = 401
    /\ Settled.req.caller = "page"
    /\ Settled.req.Authorization = Bearer("tok-1")

\* C2: every request transmitted carries `Bearer t` when the store holds
\* token t at interception time, and no Authorization header when the store
\* holds no token.
C2_BearerFromStoreAtSendTime ==
    [][\A r \in BagToSet(inflight' (-) inflight) :
          IF authStore.token \in Tokens
          THEN r.Authorization = Bearer(authStore.token)
          ELSE r.Authorization = NoHeader]_vars

C2_Witness ==
    /\ since401
    /\ \E r1, r2 \in InFlight :
          /\ r1.Authorization = Bearer("tok-2")
          /\ r2.Authorization = NoHeader

\* C3: an error that is not a 401 (a network failure, another 4xx, a 5xx)
\* leaves token, user and isLoggedIn as they were.
C3_OtherErrorsKeepSession ==
    [][pending = <<>> /\ pending' # <<>> /\ pending'[1].received.status \in {0, 400, 500}
          => authStore' = authStore]_vars

C3_Witness ==
    /\ pending # <<>>
    /\ Settled.received.status \in {0, 500}
    /\ authStore.isLoggedIn
    /\ authStore.token = "tok-1"

\* C4: a protected path evaluated while Anonymous yields a redirect to
\* /login and while Authenticated yields its children; no /admin path is
\* ever shown to an Anonymous session.
C4_RouteGuard ==
    /\ location \in AdminPaths => authStore.isLoggedIn
    /\ guard # <<>> =>
          /\ guard[1].isLoggedIn = authStore.isLoggedIn
          /\ ~guard[1].isLoggedIn =>
                guard[1].result = [kind |-> "Navigate", to |-> "/login"]
          /\ guard[1].isLoggedIn =>
                guard[1].result = [kind |-> "render", to |-> guard[1].children]

C4_Witness ==
    /\ guard # <<>>
    /\ ~guard[1].isLoggedIn
    /\ guard[1].children = "/admin/users"
    /\ location = "/login"
    /\ lastOp = "forcedLogout"


\* C5: after login(t, u) every read of the token returns t until the next
\* login, logout or forced logout; within a running process no other step
\* changes the token.
C5_TokenStableAfterLogin ==
    /\ [](loginTok # NoToken => getToken = loginTok)
    /\ [][authStore'.token # authStore.token
            => lastOp' \in {"login", "logout", "forcedLogout", "start"}]_vars

C5_Witness ==
    /\ loginTok = "tok-2"
    /\ getToken = "tok-2"
    /\ lastOp = "catch"
    /\ \E r \in InFlight : r.Authorization = Bearer("tok-1")

\* C6: after logout(), caller-invoked or forced, from any prior state, the
\* token is absent and isLoggedIn is false.
C6_LogoutClearsSession ==
    lastOp \in {"logout", "forcedLogout"}
        => authStore.token = NoToken /\ ~authStore.isLoggedIn

C6_Witness ==
    /\ lastOp = "logout"
    /\ authStore.token = NoToken
    /\ \E r \in InFlight : r.Authorization = Bearer("tok-2")

C8_LoggedInIffToken ==
    /\ [](authStore.isLoggedIn <=> (authStore.token # NoToken /\ authStore.token # ""))
    /\ [][\A r \in BagToSet(inflight' (-) inflight) :
            (r.Authorization # NoHeader) <=> authStore.isLoggedIn]_vars

C8_Witness ==
    /\ authStore.isLoggedIn
    /\ location = "/admin/users"
    /\ \E r \in InFlight : r.caller = "page" /\ r.Authorization = Bearer(authStore.token)

\* C9: the session is Anonymous or Authenticated (token and user held);
\* within a running process Anonymous becomes Authenticated only by
\* login, Authenticated becomes Anonymous only by logout or by the forced
\* logout on a 401, and sending a request, a successful response, an error
\* other than a 401, a caller's continuation and navigation leave the session
\* as it is.
C9_SessionTransitions ==
    /\ [](\/ authStore = Anonymous
          \/ /\ authStore.isLoggedIn
             /\ authStore.token \in Tokens
             /\ authStore.user \in UserRecords)
    /\ [][lastOp' # "start" =>
            /\ (~authStore.isLoggedIn /\ authStore'.isLoggedIn) => lastOp' = "login"
            /\ (authStore.isLoggedIn /\ ~authStore'.isLoggedIn)
                  => lastOp' \in {"logout", "forcedLogout"}
            /\ lastOp' \in {"request", "response", "settled", "catch", "navigate"}
                  => authStore' = authStore]_vars

C9_Witness ==
    /\ lastOp = "response"
    /\ pending # <<>>
    /\ Settled.received.status = 0
    /\ authStore.isLoggedIn
    /\ authStore.token = "tok-2"

\* C10: after login("tok-1", u) the token read is "tok-1"; once a 401 has
\* arrived and until the next login, the token is absent, a guarded path
\* redirects to /login, and no request is transmitted with a bearer header.
C10_UnauthorizedScenario ==
    /\ [](lastOp = "login" /\ loginTok = "tok-1" => getToken = "tok-1")
    /\ [](since401 =>
            /\ getToken = NoToken
            /\ location \notin AdminPaths
            /\ guard # <<>> => guard[1].result = [kind |-> "Navigate", to |-> "/login"])
    /\ [][since401 /\ since401' =>
            \A r \in BagToSet(inflight' (-) inflight) : r.Authorization = NoHeader]_vars

C10_Witness ==
    /\ since401
    /\ lastOp = "navigate"
    /\ guard # <<>>
    /\ \E r \in InFlight : r.caller = "login" /\ r.Authorization = NoHeader
    /\ \E r \in InFlight : r.Authorization = Bearer("tok-1")


\* C11: on a 401 the forced logout precedes the delivery of the error: in
\* the state in which the caller's catch block is about to run, the session
\* is already Anonymous and no /admin path is shown.
C11_LogoutBeforeCatch ==
    [][pending # <<>> /\ Settled.received.status = 401 /\ lastOp' = "catch"
          => /\ ~authStore.isLoggedIn
             /\ authStore.token = NoToken
             /\ authStore.user = NoUser
             /\ location \notin AdminPaths]_vars

C11_Witness ==
    /\ pending # <<>>
    /\ Settled.state = "rejected"
    /\ Settled.received.status = 401
    /\ Settled.req.caller = "login"
    /\ Settled.req.Authorization = Bearer("tok-2")
    /\ ~authStore.isLoggedIn

\* C12: after a logout, caller-invoked or forced by a 401, the key
\* 'authToken' is absent from the persistent scope and from the
\* tab-lifetime scope, whichever page wrote it.
C12_LogoutRemovesDurableCopy ==
    [][lastOp' \in {"logout", "forcedLogout"}
          => localStorage' = NoToken /\ sessionStorage' = NoToken]_vars

C12_Witness ==
    /\ lastOp = "forcedLogout"
    /\ localStorage = NoToken
    /\ sessionStorage = NoToken
    /\ Settled.req.caller = "page"
    /\ Settled.req.Authorization = Bearer("tok-2")
    /\ \E r \in InFlight : r.caller = "register"

\* C13: on a page reload the session is reconstructed from durable storage:
\* after a login with token t that no logout followed, the reloaded session
\* is Authenticated with token t; with no durable copy it is Anonymous.
C13_ReloadRestoresLastLogin ==
    [][lastOp' = "start" /\ sessionStorage' = sessionStorage
          => /\ loginTok # NoToken
                  => authStore'.isLoggedIn /\ authStore'.token = loginTok
             /\ DurableTokens(localStorage, sessionStorage) = {}
                  => authStore' = Anonymous]_vars

\* C14: a successful login writes the token under 'authToken' to the scope
\* the remember-me flag selects, and after any sequence of logins every
\* durable token equals the token of the current session.
C14_DurableTokenIsCurrent ==
    authStore.isLoggedIn =>
        \A t \in DurableTokens(localStorage, sessionStorage) : t = authStore.token

\* C15: every call is transmitted at most once: a page's call adds exactly
\* one request, a response removes exactly that request and transmits
\* nothing, a caller's continuation transmits nothing, and no response
\* installs a new token.
C15_AtMostOnce ==
    [][/\ lastOp' = "request"
            => BagCardinality(inflight') = BagCardinality(inflight) + 1
       /\ pending = <<>> /\ pending' # <<>>
            => /\ BagCardinality(inflight') + 1 = BagCardinality(inflight)
               /\ inflight' \sqsubseteq inflight
               /\ authStore'.token \in {authStore.token, NoToken}
       /\ lastOp' \in {"forcedLogout", "response"} => pending' # <<>>
       /\ pending # <<>> => inflight' = inflight]_vars

C15_Witness ==
    /\ pending # <<>>
    /\ Settled.received.status \in {0, 401, 500}
    /\ Settled.req.caller = "page"
    /\ inflight = EmptyBag
    /\ lastOp \in {"forcedLogout", "response"}

\* C16: login(token, user) overwrites the session whatever it was: from
\* Authenticated with (t1, u1) as from Anonymous, the session becomes
\* (t2, u2) with isLoggedIn true, with no logout in between.
C16_LoginOverwrites ==
    [][lastOp' = "login"
          => authStore' = [token |-> Settled.value.token,
                           user |-> Settled.value.user,
                           isLoggedIn |-> TRUE]]_vars

C16_Witness ==
    /\ lastOp = "login"
    /\ authStore = [token |-> "tok-2", user |-> "u2", isLoggedIn |-> TRUE]
    /\ localStorage = "tok-1"
    /\ sessionStorage = "tok-2"

\* C22: the forced logout does not depend on the token the failed request
\* carried: when the 401 answers a request sent under another token than the
\* one the store holds at its arrival (a login happened in between), the
\* session held at arrival is cleared all the same.
C22_ForcedLogoutIgnoresRequestToken ==
    (/\ pending # <<>>
     /\ Settled.received.hasResponse
     /\ Settled.received.status = Unauthorized
     /\ Settled.held # NoToken
     /\ Settled.req.Authorization # Bearer(Settled.held))
        => /\ authStore = Anonymous
           /\ localStorage = NoToken
           /\ sessionStorage = NoToken

C22_Witness ==
    /\ pending # <<>>
    /\ Settled.received.status = Unauthorized
    /\ Settled.req.caller = "page"
    /\ Settled.req.Authorization = Bearer("tok-1")
    /\ Settled.held = "tok-2"
    /\ authStore = Anonymous
    /\ lastOp = "forcedLogout"

\* C23: a fulfilled /auth/login ends with the store logged in, the token in
\* the scope rememberMe selects and the location /admin/dashboard, the route
\* guard of that navigation having seen the session Authenticated. A failed
\* /auth/login never logs in: neither its response nor the catch block puts
\* a token into the store or into a storage scope, the catch block leaves
\* session, storage and location as they are, and an Anonymous session
\* stays Anonymous.
C23_LoginPageOrdering ==
    [][/\ (pending # <<>> /\ Settled.req.caller = "login" /\ lastOp' = "login")
            => /\ authStore' = StoreLogin(Settled.value.token, Settled.value.user)
               /\ IF Settled.req.remember
                  THEN localStorage' = Settled.value.token /\ sessionStorage' = sessionStorage
                  ELSE sessionStorage' = Settled.value.token /\ localStorage' = localStorage
               /\ location' = DashboardPath
               /\ guard' = <<[isLoggedIn |-> TRUE, children |-> DashboardPath,
                              result |-> Rendered(DashboardPath)]>>
       /\ (pending = <<>> /\ pending' # <<>> /\ pending'[1].req.caller = "login"
              /\ pending'[1].state = "rejected")
            => /\ authStore' \in {authStore, Anonymous}
               /\ localStorage' \in {localStorage, NoToken}
               /\ sessionStorage' \in {sessionStorage, NoToken}
               /\ location' \in {location, LoginPath}
       /\ (pending # <<>> /\ Settled.req.caller = "login" /\ Settled.state = "rejected")
            => /\ lastOp' = "catch"
               /\ authStore' = authStore
               /\ durable' = durable
               /\ location' = location
               /\ guard' = guard
     ]_vars

C23_Witness ==
    /\ lastOp = "login"
    /\ authStore = StoreLogin("tok-1", "u1")
    /\ localStorage = "tok-1"
    /\ sessionStorage = NoToken
    /\ location = DashboardPath
    /\ guard # <<>>
    /\ guard[1].isLoggedIn
    /\ since401 = FALSE

\* =================================================================== pages
\* A signed-in session showing the admin page `path`, nothing in flight:
\* the state in which ProtectedRoute renders its children.
SignedIn(path) ==
    /\ authStore = StoreLogin("tok-1", "u1")
    /\ localStorage = "tok-1"
    /\ sessionStorage = NoToken
    /\ persistedUser = "u1"
    /\ inflight = EmptyBag
    /\ pending = <<>>
    /\ location = path
    /\ guard = <<[isLoggedIn |-> TRUE, children |-> path,
                  result |-> ProtectedRoute(TRUE, path)]>>
    /\ lastOp = "navigate"
    /\ loginTok = "tok-1"
    /\ since401 = FALSE

\* err.response?.data?.message of a failure that carries none (a response
\* without a message, or no response at all).
NoMessage == "<no-message>"

\* useState<string>(''): no error displayed.
NoError == ""

\* What a page's call settles with: the status (0: no response arrived) and
\* the backend's message. A 401 unmounts the page and is not a page reply.
PageReply(status, message) == [status |-> status, message |-> message]

PageReplies ==
    {PageReply(200, NoMessage), PageReply(500, "Service unavailable"),
     PageReply(400, "Invalid date range"), PageReply(500, NoMessage),
     PageReply(0, NoMessage)}

Fulfils(reply) == reply.status \in SuccessStatuses

\* The generic text a call site falls back to (each site has its own).
Fallback(site) == "generic: " \o site

\* err.response?.data?.message || fallback
ErrorText(err, fallback) ==
    IF err.message # NoMessage /\ err.message # "" THEN err.message ELSE fallback

\* ---------------------------------------------------------------- dashboard
DashKinds == {"Dashboard", "TeacherDashboard"}

\* The route each dashboard is mounted on.
DashPath(kind) ==
    IF kind = "Dashboard" THEN DashboardPath ELSE "/admin/teachers/1/dashboard"

\* The fetches loadData awaits together: Promise.all([...]).
DashFetches(kind) ==
    IF kind = "Dashboard"
    THEN {"fetchRevenueStats", "fetchRecentOrders", "fetchPaymentMethods"}
    ELSE {"fetchSalesStats", "fetchBuyers"}

\* Two visits of the page; the backend answers both alike (`outcome`), the
\* network delivers the answers of each visit in an order of its own.
Visits == {1, 2}

\* The component after loadData ran up to its await: setIsLoading(true),
\* setError(''), every fetch transmitted; the data slices hold their
\* useState initial values.
LoadData(kind) ==
    [data |-> [f \in DashFetches(kind) |-> None],
     error |-> NoError,
     isLoading |-> TRUE,
     waiting |-> DashFetches(kind)]

\* loadData after its await: once every fetch has settled (none of them
\* rejects: each catches its own failure), finally setIsLoading(false).
LoadDataFinally(view) ==
    IF view.waiting = {} THEN [view EXCEPT !.isLoading = FALSE] ELSE view

\* fetch<Slice>, try branch: set<Slice>(response.data.data); setError('').
FetchFulfilled(v, f) ==
    /\ f \in dash[v].waiting
    /\ Fulfils(outcome[f])
    /\ dash' = [dash EXCEPT ![v] =
                  LoadDataFinally([dash[v] EXCEPT !.data[f] = "loaded",
                                                  !.error = NoError,
                                                  !.waiting = @ \ {f}])]
    /\ UNCHANGED <<vars, dashKind, outcome, listKind, list, fetches, listOp, shown, formVars>>

\* fetch<Slice>, catch branch: setError(message || generic text).
FetchRejected(v, f) ==
    /\ f \in dash[v].waiting
    /\ ~Fulfils(outcome[f])
    /\ dash' = [dash EXCEPT ![v] =
                  LoadDataFinally([dash[v] EXCEPT !.error = ErrorText(outcome[f], Fallback(f)),
                                                  !.waiting = @ \ {f}])]
    /\ UNCHANGED <<vars, dashKind, outcome, listKind, list, fetches, listOp, shown, formVars>>

\* A dashboard was opened twice and loadData has started in both visits.
DashInit ==
    /\ dashKind \in DashKinds
    /\ SignedIn(DashPath(dashKind))
    /\ outcome \in [DashFetches(dashKind) -> PageReplies]
    /\ dash = [v \in Visits |-> LoadData(dashKind)]
    /\ ListUnmounted
    /\ NothingShown
    /\ FormsUnmounted

DashNext ==
    \/ \E v \in Visits, f \in DashFetches(dashKind) : FetchFulfilled(v, f)
    \/ \E v \in Visits, f \in DashFetches(dashKind) : FetchRejected(v, f)

DashSpec == DashInit /\ [][DashNext]_allVars

\* C17: the parallel fetches of a dashboard are order-independent: once all
\* of them have completed, the component state (data slices, error message,
\* loading flag) is the same whichever order they completed in. Two visits
\* that got the same replies must therefore end in the same state.
C17_OrderIndependent ==
    (\A v \in Visits : dash[v].waiting = {}) => dash[1] = dash[2]

\* --------------------------------------------------------------- list pages
\* Users, Courses, Teachers and Coupons: a table fed by one fetch function.
ListKinds == {"Users", "Courses", "Teachers", "Coupons"}

ListPath(kind) ==
    CASE kind = "Users" -> "/admin/users"
      [] kind = "Courses" -> "/admin/courses"
      [] kind = "Teachers" -> "/admin/teachers"
      [] OTHER -> "/admin/coupons"

\* Most list requests allowed in flight at once, and most pages the backend
\* reports.
MaxFetches == 2
MaxPage == 3

\* const [limit] = useState(10)
Limit == 10

SearchTexts == {"", "ann"}
StatusFilters == {"", "published"}

\* Pages with page controls (Teachers loads everything at once), the page
\* whose search box feeds the request (Teachers filters on the client,
\* Coupons has no search box), the page with a status <select>. The search
\* box of Courses is a copy of that of Users and is explored on Users only;
\* Courses is explored through its status filter.
Paginated(kind) == kind # "Teachers"
Searchable(kind) == kind = "Users"
Filterable(kind) == kind = "Courses"

\* The query string of a list request.
Query(page, search, status) == [page |-> page, search |-> search, status |-> status]

\* The rows the backend returns for a query; useState([]) before any arrived.
RowsOf(query) == query
NoRows == Query(0, "", "")

\* response.data.data.meta for a result of `tp` pages.
Meta(tp) == [totalPages |-> tp, totalItems |-> tp * Limit]

Min(a, b) == IF a < b THEN a ELSE b
Max(a, b) == IF a > b THEN a ELSE b

\* The request the fetch function builds from the state of this render.
CurrentQuery(view) == Query(view.page, view.debouncedSearch, view.statusFilter)

ListRoom == BagCardinality(fetches) < MaxFetches

\* fetchUsers / fetchCourses / fetchTeachers / fetchCoupons up to the await:
\* setIsLoading(true), setError('') (fetchCoupons leaves the error), then the
\* request for the rendered page, search and filter is transmitted.
FetchStart(kind, view) ==
    /\ ListRoom
    /\ list' = [view EXCEPT !.isLoading = TRUE,
                            !.error = IF kind = "Coupons" THEN @ ELSE NoError]
    /\ fetches' = fetches (+) SetToBag({CurrentQuery(view)})

\* A render after which the effect on [fetchX] (Coupons: on [page]) runs
\* the fetch if one of its dependencies changed.
Rerender(kind, view) ==
    IF CurrentQuery(view) # CurrentQuery(list)
    THEN FetchStart(kind, view)
    ELSE list' = view /\ fetches' = fetches

\* The page controls are on screen: Coupons hides the table only during its
\* very first load; the other pages hide it while loading or in error.
ControlsShown(kind, view) ==
    /\ Paginated(kind)
    /\ view.totalPages > 1
    /\ IF kind = "Coupons" THEN ~(view.isLoading /\ view.rows = NoRows)
       ELSE ~view.isLoading /\ view.error = NoError

\* The component right after mounting: initial useState values, and the
\* first fetch on its way.
Mounted(kind) ==
    [page |-> 1, searchInput |-> "", debouncedSearch |-> "", statusFilter |-> "",
     rows |-> NoRows, totalPages |-> IF kind = "Coupons" THEN 1 ELSE 0,
     totalItems |-> 0, error |-> NoError, isLoading |-> TRUE]

\* Everything a list step leaves alone.
ListFrame == UNCHANGED <<vars, dashKind, outcome, dash, listKind, shown, formVars>>

\* Next button: setPage((p) => Math.min(totalPages, p + 1)).
NextPageClick ==
    /\ ControlsShown(listKind, list)
    /\ list.page # list.totalPages
    /\ Rerender(listKind, [list EXCEPT !.page = Min(list.totalPages, list.page + 1)])
    /\ listOp' = "nextPage"
    /\ ListFrame

\* Previous button: setPage((p) => Math.max(1, p - 1)).
PrevPageClick ==
    /\ ControlsShown(listKind, list)
    /\ list.page # 1
    /\ Rerender(listKind, [list EXCEPT !.page = Max(1, list.page - 1)])
    /\ listOp' = "prevPage"
    /\ ListFrame

\* handleSearchChange: setSearchInput(e.target.value); setPage(1). The
\* request changes at once only through the page; the text reaches it when
\* the debounce delay has passed.
HandleSearchChange ==
    /\ Searchable(listKind)
    /\ \E text \in SearchTexts \ {list.searchInput} :
          Rerender(listKind, [list EXCEPT !.searchInput = text, !.page = 1])
    /\ listOp' = "search"
    /\ ListFrame

\* useDebounce: the timer set by the last change of searchInput fires,
\* setDebouncedValue(value).
DebounceElapsed ==
    /\ Searchable(listKind)
    /\ list.debouncedSearch # list.searchInput
    /\ Rerender(listKind, [list EXCEPT !.debouncedSearch = list.searchInput])
    /\ listOp' = "debounce"
    /\ ListFrame

\* handleStatusFilterChange: setStatusFilter(e.target.value); setPage(1).
HandleStatusFilterChange ==
    /\ Filterable(listKind)
    /\ \E status \in StatusFilters \ {list.statusFilter} :
          Rerender(listKind, [list EXCEPT !.statusFilter = status, !.page = 1])
    /\ listOp' = "filter"
    /\ ListFrame

\* The fetch function after its await, try branch: the rows and the
\* pagination of the answered request are stored (fetchTeachers: the rows;
\* fetchCoupons: rows, totalPages, setError(null)); finally the loading flag
\* is dropped.
ListFetchFulfilled ==
    /\ \E query \in BagToSet(fetches), tp \in 1..MaxPage :
          /\ fetches' = fetches (-) SetToBag({query})
          /\ list' = [list EXCEPT
                        !.rows = RowsOf(query),
                        !.totalPages = IF Paginated(listKind) THEN Meta(tp).totalPages ELSE @,
                        !.totalItems = IF listKind \in {"Users", "Courses"}
                                       THEN Meta(tp).totalItems ELSE @,
                        !.error = IF listKind = "Coupons" THEN NoError ELSE @,
                        !.isLoading = FALSE]
    /\ listOp' = "fetchFulfilled"
    /\ ListFrame

ListFetchRejected_ClearsRows ==
    /\ \E query \in BagToSet(fetches), err \in {r \in PageReplies : ~Fulfils(r)} :
          /\ fetches' = fetches (-) SetToBag({query})
          /\ list' = [list EXCEPT
                        !.rows = NoRows,
                        !.totalPages = 0,
                        !.error = ErrorText(err, Fallback(listKind)),
                        !.isLoading = FALSE]
    /\ listOp' = "fetchRejected"
    /\ ListFrame

\* The fetch function after its await, catch branch: setError(message ||
\* generic text); finally the loading flag is dropped.
ListFetchRejected ==
    /\ \E query \in BagToSet(fetches), err \in {r \in PageReplies : ~Fulfils(r)} :
          /\ fetches' = fetches (-) SetToBag({query})
          /\ list' = [list EXCEPT
                        !.error = ErrorText(err, Fallback(listKind)),
                        !.isLoading = FALSE]
    /\ listOp' = "fetchRejected"
    /\ ListFrame

\* A list page was opened: first render done, first fetch transmitted.
ListInit ==
    /\ listKind \in ListKinds
    /\ SignedIn(ListPath(listKind))
    /\ list = Mounted(listKind)
    /\ fetches = SetToBag({CurrentQuery(Mounted(listKind))})
    /\ listOp = "mount"
    /\ DashUnmounted
    /\ NothingShown
    /\ FormsUnmounted

ListNext ==
    \/ NextPageClick
    \/ PrevPageClick
    \/ HandleSearchChange
    \/ DebounceElapsed
    \/ HandleStatusFilterChange
    \/ ListFetchFulfilled
    \/ ListFetchRejected

ListSpec == ListInit /\ [][ListNext]_allVars

\* The request initiated last: every change of page, search text or filter
\* starts the fetch for the values now rendered.
LastInitiated == CurrentQuery(list)

\* C18: on a paginated list, when the requests in flight have all completed
\* (and succeeded), the rows displayed are those of the request initiated
\* last, whatever order the responses arrived in.
C18_LastInitiatedWins ==
    (Paginated(listKind) /\ fetches = EmptyBag /\ list.error = NoError)
        => list.rows = RowsOf(LastInitiated)

\* C19: a failed list fetch changes only the error and the loading flag:
\* rows, page and pagination stay as they were displayed.
C19_FailedFetchKeepsRows ==
    [][listOp' = "fetchRejected" =>
         [list' EXCEPT !.error = list.error, !.isLoading = list.isLoading] = list]_allVars

C19_Witness ==
    /\ listOp = "fetchRejected"
    /\ list.rows = RowsOf(Query(1, "", ""))
    /\ list.totalPages = 2
    /\ list.page = 2
    /\ list.error = "Service unavailable"
    /\ ~list.isLoading

\* C27: in a paginated list the page number is at least 1, and is at most
\* totalPages whenever the page controls are on screen.
C27_PageWithinBounds ==
    (listKind # None /\ Paginated(listKind)) =>
        /\ 1 <= list.page
        /\ ControlsShown(listKind, list) => list.page <= list.totalPages

\* C28: a list request that carries another search text or status filter
\* than the request before it asks for page 1.
C28_NewQueryStartsAtPageOne ==
    [][\A query \in BagToSet(fetches' (-) fetches) :
          (query.search # LastInitiated.search \/ query.status # LastInitiated.status)
              => query.page = 1]_allVars

\* C29: in Users, Courses and Teachers the loading flag is up in every state
\* in which a list request is in flight.
C29_LoadingWhileInFlight ==
    (listKind \in {"Users", "Courses", "Teachers"} /\ fetches # EmptyBag)
        => list.isLoading

\* ------------------------------------------------------------- catch blocks
\* A session with nobody signed in, showing the public page `path`.
SignedOut(path) ==
    /\ authStore = Anonymous
    /\ localStorage = NoToken
    /\ sessionStorage = NoToken
    /\ persistedUser = NoUser
    /\ inflight = EmptyBag
    /\ pending = <<>>
    /\ location = path
    /\ guard = <<>>
    /\ lastOp = "start"
    /\ loginTok = NoToken
    /\ since401 = FALSE

\* A catch block around a backend call: the page and function it is in, the
\* route of the page, the channel it displays on ("setError": the page's
\* error banner, "alert": window.alert, "console": nothing on screen) and
\* the expression it displays.
Handler(page, fn, path, via, text) ==
    [site |-> page \o "." \o fn, path |-> path, via |-> via, text |-> text]

\* The expressions found in the catch blocks.
MessageOrGeneric == "err.response?.data?.message || generic"
GenericOnly == "generic"
MessageOrAxiosOrGeneric == "err.response?.data?.message || err.message || generic"
Nothing == "console.error only"

LoginHandlers ==
    {Handler("Login", "handleSubmit", LoginPath, "setError", MessageOrGeneric)}

RegisterHandlers ==
    {Handler("Register", "handleSubmit", RegisterPath, "setError", MessageOrGeneric)}

DashboardHandlers ==
    {Handler("Dashboard", "fetchRevenueStats", DashboardPath, "setError", MessageOrGeneric),
     Handler("Dashboard", "fetchRecentOrders", DashboardPath, "setError", MessageOrGeneric),
     Handler("Dashboard", "fetchPaymentMethods", DashboardPath, "setError", MessageOrGeneric),
     Handler("Dashboard", "fetchOrderDetails", DashboardPath, "alert", GenericOnly)}

TeacherDashboardHandlers ==
    {Handler("TeacherDashboard", "fetchTeacher", DashPath("TeacherDashboard"), "setError", GenericOnly),
     Handler("TeacherDashboard", "fetchSalesStats", DashPath("TeacherDashboard"), "setError", MessageOrGeneric),
     Handler("TeacherDashboard", "fetchBuyers", DashPath("TeacherDashboard"), "setError", MessageOrGeneric)}

UsersHandlers ==
    {Handler("Users", "fetchUsers", ListPath("Users"), "setError", MessageOrGeneric),
     Handler("Users", "handleDelete", ListPath("Users"), "alert", MessageOrGeneric),
     Handler("Users", "handleFormSubmit", ListPath("Users"), "alert", MessageOrGeneric)}

TeachersHandlers ==
    {Handler("Teachers", "fetchTeachers", ListPath("Teachers"), "setError", MessageOrGeneric),
     Handler("Teachers", "handleDelete", ListPath("Teachers"), "alert", MessageOrGeneric),
     Handler("Teachers", "handleFormSubmit", ListPath("Teachers"), "alert", MessageOrAxiosOrGeneric)}

CoursesHandlers ==
    {Handler("Courses", "fetchCourses", ListPath("Courses"), "setError", MessageOrGeneric),
     Handler("Courses", "handleDelete", ListPath("Courses"), "alert", MessageOrGeneric)}

CouponsHandlers ==
    {Handler("Coupons", "fetchCoupons", ListPath("Coupons"), "setError", MessageOrGeneric),
     Handler("Coupons", "fetchCouponUsage", ListPath("Coupons"), "alert", MessageOrGeneric),
     Handler("Coupons", "handleSubmit", ListPath("Coupons"), "alert", MessageOrGeneric),
     Handler("Coupons", "handleDelete", ListPath("Coupons"), "alert", MessageOrGeneric)}

CourseEditorPath == "/admin/courses/1"

CourseEditorHandlers ==
    {Handler("CourseEditor", "fetchCourse", CourseEditorPath, "setError", MessageOrGeneric),
     Handler("CourseEditor", "fetchTeachers", CourseEditorPath, "console", Nothing),
     Handler("CourseEditor", "fetchSections", CourseEditorPath, "console", Nothing),
     Handler("CourseEditor", "fetchSections.lessons", CourseEditorPath, "console", Nothing),
     Handler("CourseEditor", "handleUploadCover", CourseEditorPath, "alert", MessageOrGeneric),
     Handler("CourseEditor", "handleUploadPreview", CourseEditorPath, "alert", MessageOrGeneric),
     Handler("CourseEditor", "handleSave", CourseEditorPath, "setError", MessageOrGeneric),
     Handler("CourseEditor", "handleAddSection", CourseEditorPath, "alert", MessageOrGeneric),
     Handler("CourseEditor", "handleUpdateSection", CourseEditorPath, "alert", MessageOrGeneric),
     Handler("CourseEditor", "handleDeleteSection", CourseEditorPath, "alert", MessageOrGeneric),
     Handler("CourseEditor", "handleAddLesson", CourseEditorPath, "alert", MessageOrGeneric),
     Handler("CourseEditor", "handleUpdateLesson", CourseEditorPath, "alert", MessageOrGeneric),
     Handler("CourseEditor", "handleDeleteLesson", CourseEditorPath, "alert", MessageOrGeneric)}

CatchHandlers ==
    LoginHandlers \cup RegisterHandlers \cup DashboardHandlers
        \cup TeacherDashboardHandlers \cup UsersHandlers \cup TeachersHandlers
        \cup CoursesHandlers \cup CouponsHandlers \cup CourseEditorHandlers

\* err.message of the error axios rejects with.
AxiosMessage(err) ==
    IF err.status = 0 THEN "Network Error"
    ELSE "Request failed with status code " \o ToString(err.status)

\* The value of the displayed expression for the failure `err`.
CatchText(handler, err) ==
    CASE handler.text = MessageOrGeneric -> ErrorText(err, Fallback(handler.site))
      [] handler.text = GenericOnly -> Fallback(handler.site)
      [] handler.text = MessageOrAxiosOrGeneric ->
            ErrorText(err, ErrorText(PageReply(err.status, AxiosMessage(err)),
                                     Fallback(handler.site)))
      [] OTHER -> NoError

Failures == {r \in PageReplies : ~Fulfils(r)}

CatchFrame ==
    UNCHANGED <<vars, dashKind, outcome, dash, listKind, list, fetches, listOp, formVars>>

Caught(handler, err) ==
    /\ location = handler.path
    /\ shown' = <<[site |-> handler.site, via |-> handler.via, err |-> err,
                   text |-> CatchText(handler, err)]>>
    /\ CatchFrame

\* A call fails inside a try block whose catch sets the page's error state.
CatchSetsError ==
    \E handler \in CatchHandlers, err \in Failures :
        handler.via = "setError" /\ Caught(handler, err)

\* A call fails inside a try block whose catch raises an alert.
CatchAlerts ==
    \E handler \in CatchHandlers, err \in Failures :
        handler.via = "alert" /\ Caught(handler, err)

\* A call fails inside a try block whose catch only logs.
CatchLogs ==
    \E handler \in CatchHandlers, err \in Failures :
        handler.via = "console" /\ Caught(handler, err)

\* A page is on screen (signed out on the public pages) and has displayed
\* nothing yet.
CatchInit ==
    /\ \E path \in {h.path : h \in CatchHandlers} :
          IF path \in {LoginPath, RegisterPath} THEN SignedOut(path) ELSE SignedIn(path)
    /\ NothingShown
    /\ DashUnmounted
    /\ ListUnmounted
    /\ FormsUnmounted

CatchNext == CatchSetsError \/ CatchAlerts \/ CatchLogs

CatchSpec == CatchInit /\ [][CatchNext]_allVars

\* C20: every catch block around a failed backend request displays the
\* backend's message when the response carries one, and its own generic
\* text otherwise.
C20_BackendMessageElseGeneric ==
    shown # <<>> =>
        /\ shown[1].via \in {"setError", "alert"}
        /\ shown[1].text = ErrorText(shown[1].err, Fallback(shown[1].site))

(***************************************************************************)
(* useDebounce (unnamed/part_001 46-60, copied in pages/Courses.tsx 48-62  *)
(* and unnamed/part_002 31-45).  Time is a clock that ticks; the pages     *)
(* pass a delay of 500 ms, here DelayTicks ticks.  A timer never runs      *)
(* before its delay has passed but may run late.                           *)
(***************************************************************************)

DelayTicks == 2

DebounceTexts == {"", "a", "an", "ann"}

\* setTimeout(() => setDebouncedValue(value), delay)
Timer(value, delay) == [value |-> value, remaining |-> delay]

\* useState(value) and the effect of the first render.  heldFor and dropped
\* are history: the ticks the input has held its present value (counted up
\* to the delay), and the values whose timer was cleared before it ran.
UseDebounce(value, delay) ==
    [value          |-> value,
     debouncedValue |-> value,
     timers         |-> {Timer(value, delay)},
     heldFor        |-> 0,
     dropped        |-> {}]

\* the faulty variant: the effect has no cleanup, the old timer stays armed
HookChange_NoCleanup(value) ==
    /\ hook # <<>>
    /\ value # hook.value
    /\ hook' = [hook EXCEPT !.value   = value,
                            !.timers  = @ \cup {Timer(value, DelayTicks)},
                            !.heldFor = 0]
    /\ UNCHANGED <<vars, dashKind, outcome, dash, listKind, list, fetches, listOp,
                   shown, crud, editor, loginPage>>

\* the caller renders with another value: the effect's cleanup clears the
\* timer of the previous render, then the effect arms a new one
HookChange(value) ==
    /\ hook # <<>>
    /\ value # hook.value
    /\ hook' = [hook EXCEPT !.value   = value,
                            !.timers  = {Timer(value, DelayTicks)},
                            !.heldFor = 0,
                            !.dropped = @ \cup {t.value : t \in hook.timers}]
    /\ UNCHANGED <<vars, dashKind, outcome, dash, listKind, list, fetches, listOp,
                   shown, crud, editor, loginPage>>

\* one tick of the clock
HookTick ==
    /\ hook # <<>>
    /\ hook' = [hook EXCEPT
                   !.timers  = {[t EXCEPT !.remaining = Max(@, 1) - 1] : t \in @},
                   !.heldFor = Min(@ + 1, DelayTicks)]
    /\ UNCHANGED <<vars, dashKind, outcome, dash, listKind, list, fetches, listOp,
                   shown, crud, editor, loginPage>>

\* a timer whose delay has passed runs its callback: setDebouncedValue(value).
\* The render that follows has the same [value, delay], so the effect is
\* not run again.
HookTimeout ==
    /\ hook # <<>>
    /\ \E t \in hook.timers :
          /\ t.remaining = 0
          /\ hook' = [hook EXCEPT !.debouncedValue = t.value,
                                  !.timers         = @ \ {t}]
    /\ UNCHANGED <<vars, dashKind, outcome, dash, listKind, list, fetches, listOp,
                   shown, crud, editor, loginPage>>

DebounceInit ==
    /\ SignedIn(ListPath("Users"))
    /\ DashUnmounted
    /\ ListUnmounted
    /\ NothingShown
    /\ crud = <<>> /\ editor = <<>> /\ loginPage = <<>>
    /\ hook = UseDebounce("", DelayTicks)

DebounceNext ==
    \/ \E value \in DebounceTexts : HookChange(value)
    \/ HookTick
    \/ HookTimeout

\* the clock advances and a due timer is eventually run
DebounceSpec ==
    /\ DebounceInit
    /\ [][DebounceNext]_allVars
    /\ WF_allVars(HookTick)
    /\ WF_allVars(HookTimeout)

\* C30: the debounced value only changes to the value the input holds and
\* has held for the whole delay (so a value overwritten within the delay
\* is never propagated), and if the input stops changing the debounced
\* value eventually equals the last input value and stays equal.
C30_DebouncedFollowsSettledInput ==
    /\ [][hook'.debouncedValue # hook.debouncedValue =>
            /\ hook'.debouncedValue = hook.value
            /\ hook'.value = hook.value
            /\ hook.heldFor = DelayTicks]_allVars
    /\ \A value \in DebounceTexts :
          (<>[](hook.value = value)) => (<>[](hook.debouncedValue = value))

\* "ann" was propagated after "a" and "an" were overwritten within the delay
C30_Witness ==
    /\ hook.debouncedValue = "ann"
    /\ hook.value = "ann"
    /\ {"a", "an"} \subseteq hook.dropped
    /\ hook.timers = {}

(***************************************************************************)
(* Drawer, form and delete handlers of the list pages: Users               *)
(* (unnamed/part_001 258-315), Teachers (unnamed/part_002 229-293),        *)
(* Courses (pages/Courses.tsx 122-135, delete only) and Coupons            *)
(* (pages/Coupons.tsx 96-159).  The list itself is the one modelled above; *)
(* here it stays on its first page and is driven by the refetches the     *)
(* handlers start.                                                         *)
(***************************************************************************)

MaxMutations == 2

FormKinds == {"Users", "Teachers", "Coupons"}

\* Users and Teachers keep a formLoading flag; Coupons.handleSubmit has none.
HasFormLoading(kind) == kind \in {"Users", "Teachers"}

\* The failures a POST, PUT or DELETE is answered with.
MutationFailures == {PageReply(500, "Service unavailable"), PageReply(0, NoMessage)}

NoAlert == ""

\* A POST, PUT or DELETE on its way, with the fetch function its handler
\* closed over: the one of the render in which the button was pressed.
Mutation(method, closure) == [method |-> method, closure |-> closure]

\* useState initial values of the drawer and the form; nothing on its way.
\* op is history, the handler step taken last; confirmed is the answer of
\* the confirmation dialog and alert the text of the alert box that step
\* showed (FALSE and none if it showed no dialog).
CrudMounted ==
    [drawerOpen  |-> FALSE,
     drawerMode  |-> "create",
     formLoading |-> FALSE,
     mutations   |-> EmptyBag,
     confirmed   |-> FALSE,
     alert       |-> NoAlert,
     op          |-> "mount"]

\* The table rows, with their Edit and Delete buttons, are on screen.
RowsShown(kind, view) ==
    /\ view.rows # NoRows
    /\ IF kind = "Coupons" THEN TRUE ELSE ~view.isLoading /\ view.error = NoError

MutationRoom == BagCardinality(crud.mutations) < MaxMutations /\ ListRoom

\* fetchX() called from a handler after its await: the fetch function of
\* the handler's render runs up to its own await.
Refetch(kind, closure) ==
    /\ list' = [list EXCEPT !.isLoading = TRUE,
                            !.error = IF kind = "Coupons" THEN @ ELSE NoError]
    /\ fetches' = fetches (+) SetToBag({closure})
    /\ listOp' = "refetch"

\* the alert of the catch block of `fn`
AlertText(kind, fn, err) ==
    CatchText(CHOOSE h \in CatchHandlers : h.site = kind \o "." \o fn, err)

\* Everything a handler of the drawer leaves alone.
CrudFrame == UNCHANGED <<vars, dashKind, outcome, dash, listKind, shown,
                         hook, editor, loginPage>>

\* handleCreate: setSelectedX(undefined); setDrawerMode('create');
\* setDrawerOpen(true)  (Coupons: resetForm, editingCoupon null)
HandleCreate ==
    /\ crud # <<>>
    /\ listKind \in FormKinds
    /\ ~crud.drawerOpen
    /\ crud' = [crud EXCEPT !.drawerOpen = TRUE, !.drawerMode = "create", !.op = "open",
                             !.confirmed = FALSE, !.alert = NoAlert]
    /\ UNCHANGED <<list, fetches, listOp>>
    /\ CrudFrame

\* handleEdit: setSelectedX(row); setDrawerMode('edit'); setDrawerOpen(true)
HandleEdit ==
    /\ crud # <<>>
    /\ listKind \in FormKinds
    /\ ~crud.drawerOpen
    /\ RowsShown(listKind, list)
    /\ crud' = [crud EXCEPT !.drawerOpen = TRUE, !.drawerMode = "edit", !.op = "open",
                             !.confirmed = FALSE, !.alert = NoAlert]
    /\ UNCHANGED <<list, fetches, listOp>>
    /\ CrudFrame

\* Drawer onClose: setDrawerOpen(false)
DrawerClose ==
    /\ crud # <<>>
    /\ listKind \in FormKinds
    /\ crud.drawerOpen
    /\ crud' = [crud EXCEPT !.drawerOpen = FALSE, !.op = "close",
                             !.confirmed = FALSE, !.alert = NoAlert]
    /\ UNCHANGED <<list, fetches, listOp>>
    /\ CrudFrame

\* handleFormSubmit / handleSubmit up to the await: setFormLoading(true),
\* then POST in create mode, PUT in edit mode.  The submit button is
\* disabled while formLoading.
HandleFormSubmit ==
    /\ crud # <<>>
    /\ listKind \in FormKinds
    /\ crud.drawerOpen
    /\ ~crud.formLoading
    /\ MutationRoom
    /\ crud' = [crud EXCEPT
                  !.formLoading = HasFormLoading(listKind),
                  !.mutations = @ (+) SetToBag({Mutation(
                                    IF crud.drawerMode = "create" THEN "POST" ELSE "PUT",
                                    CurrentQuery(list))}),
                  !.op = "submit", !.confirmed = FALSE, !.alert = NoAlert]
    /\ UNCHANGED <<list, fetches, listOp>>
    /\ CrudFrame

\* the faulty variant: the refetch is started before the request is
\* answered, and again after it
FormFulfilled_RefetchTwice ==
    /\ crud # <<>>
    /\ \E m \in BagToSet(crud.mutations) :
          /\ m.method \in {"POST", "PUT"}
          /\ crud' = [crud EXCEPT !.mutations = @ (-) SetToBag({m}),
                                  !.drawerOpen = FALSE,
                                  !.formLoading = FALSE,
                                  !.op = "submitFulfilled",
                                  !.confirmed = FALSE, !.alert = NoAlert]
          /\ list' = [list EXCEPT !.isLoading = TRUE,
                                  !.error = IF listKind = "Coupons" THEN @ ELSE NoError]
          /\ fetches' = fetches (+) SetToBag({m.closure}) (+) SetToBag({m.closure})
          /\ listOp' = "refetch"
    /\ CrudFrame

\* handleFormSubmit after its await, try branch: setDrawerOpen(false);
\* fetchX(); finally setFormLoading(false)
FormFulfilled ==
    /\ crud # <<>>
    /\ \E m \in BagToSet(crud.mutations) :
          /\ m.method \in {"POST", "PUT"}
          /\ crud' = [crud EXCEPT !.mutations = @ (-) SetToBag({m}),
                                  !.drawerOpen = FALSE,
                                  !.drawerMode = IF listKind = "Coupons" THEN "create" ELSE @,
                                  !.formLoading = FALSE,
                                  !.op = "submitFulfilled",
                                  !.confirmed = FALSE, !.alert = NoAlert]
          /\ Refetch(listKind, m.closure)
    /\ CrudFrame

\* handleFormSubmit after its await, catch branch: alert(message || generic
\* text); finally setFormLoading(false)
FormRejected ==
    /\ crud # <<>>
    /\ \E m \in BagToSet(crud.mutations), err \in MutationFailures :
          /\ m.method \in {"POST", "PUT"}
          /\ crud' = [crud EXCEPT
                        !.mutations = @ (-) SetToBag({m}),
                        !.formLoading = FALSE,
                        !.alert = AlertText(listKind,
                                     IF listKind = "Coupons" THEN "handleSubmit"
                                     ELSE "handleFormSubmit", err),
                        !.op = "submitRejected", !.confirmed = FALSE]
    /\ UNCHANGED <<list, fetches, listOp>>
    /\ CrudFrame

\* the faulty variant: the DELETE is sent whatever the dialog answered
HandleDelete_NoConfirm ==
    /\ crud # <<>>
    /\ RowsShown(listKind, list)
    /\ MutationRoom
    /\ \E accepted \in BOOLEAN :
          crud' = [crud EXCEPT
                     !.confirmed = accepted,
                     !.mutations = @ (+) SetToBag({Mutation("DELETE", CurrentQuery(list))}),
                     !.op = "deleteSent", !.alert = NoAlert]
    /\ UNCHANGED <<list, fetches, listOp>>
    /\ CrudFrame

\* handleDelete up to the await: if (!window.confirm(...)) return; then the
\* DELETE is sent
HandleDelete ==
    /\ crud # <<>>
    /\ RowsShown(listKind, list)
    /\ MutationRoom
    /\ \E accepted \in BOOLEAN :
          crud' = [crud EXCEPT
                     !.confirmed = accepted,
                     !.mutations = IF accepted
                                   THEN @ (+) SetToBag({Mutation("DELETE", CurrentQuery(list))})
                                   ELSE @,
                     !.op = IF accepted THEN "deleteSent" ELSE "deleteDeclined",
                     !.alert = NoAlert]
    /\ UNCHANGED <<list, fetches, listOp>>
    /\ CrudFrame

\* handleDelete after its await, try branch: fetchX()
DeleteFulfilled ==
    /\ crud # <<>>
    /\ \E m \in BagToSet(crud.mutations) :
          /\ m.method = "DELETE"
          /\ crud' = [crud EXCEPT !.mutations = @ (-) SetToBag({m}),
                                  !.op = "deleteFulfilled",
                                  !.confirmed = FALSE, !.alert = NoAlert]
          /\ Refetch(listKind, m.closure)
    /\ CrudFrame

\* handleDelete after its await, catch branch: alert(message || generic text)
DeleteRejected ==
    /\ crud # <<>>
    /\ \E m \in BagToSet(crud.mutations), err \in MutationFailures :
          /\ m.method = "DELETE"
          /\ crud' = [crud EXCEPT
                        !.mutations = @ (-) SetToBag({m}),
                        !.alert = AlertText(listKind, "handleDelete", err),
                        !.op = "deleteRejected", !.confirmed = FALSE]
    /\ UNCHANGED <<list, fetches, listOp>>
    /\ CrudFrame

\* A list page was opened: first render done, first fetch transmitted,
\* drawer closed.
CrudInit ==
    /\ listKind \in ListKinds
    /\ SignedIn(ListPath(listKind))
    /\ list = Mounted(listKind)
    /\ fetches = SetToBag({CurrentQuery(Mounted(listKind))})
    /\ listOp = "mount"
    /\ DashUnmounted
    /\ NothingShown
    /\ hook = <<>> /\ editor = <<>> /\ loginPage = <<>>
    /\ crud = CrudMounted

CrudNext ==
    \/ ListFetchFulfilled /\ UNCHANGED crud
    \/ ListFetchRejected /\ UNCHANGED crud
    \/ HandleCreate
    \/ HandleEdit
    \/ DrawerClose
    \/ HandleFormSubmit
    \/ FormFulfilled
    \/ FormRejected
    \/ HandleDelete
    \/ DeleteFulfilled
    \/ DeleteRejected

CrudSpec == CrudInit /\ [][CrudNext]_allVars

\* The requests of the given methods that were answered in this step.
Answered(methods) ==
    {m \in BagToSet(crud.mutations (-) crud'.mutations) : m.method \in methods}

\* C25: when the POST/PUT of the form succeeds the drawer is closed and
\* exactly one list request is started; when it fails the drawer stays as
\* it was, no list request is started and the list is unchanged; in both
\* cases formLoading is false afterwards.
C25_FormSubmitFlow ==
    [][Answered({"POST", "PUT"}) # {} =>
          /\ ~crud'.formLoading
          /\ crud'.op \in {"submitFulfilled", "submitRejected"}
          /\ crud'.op = "submitFulfilled" =>
                /\ ~crud'.drawerOpen
                /\ BagCardinality(fetches') = BagCardinality(fetches) + 1
          /\ crud'.op = "submitRejected" =>
                /\ crud'.drawerOpen = crud.drawerOpen
                /\ fetches' = fetches
                /\ list' = list]_allVars

C25_Witness ==
    /\ listKind = "Users"
    /\ crud.op = "submitFulfilled"
    /\ ~crud.drawerOpen
    /\ ~crud.formLoading
    /\ list.rows = RowsOf(Query(1, "", ""))
    /\ list.isLoading
    /\ fetches = SetToBag({Query(1, "", "")})

\* C26: a DELETE is sent only in a step in which the confirmation dialog
\* was accepted; a handleDelete step starts a list request only when its
\* DELETE was answered with success; a failed DELETE leaves the list and
\* the list requests as they were.
C26_DeleteGatedByConfirmation ==
    [][/\ \A m \in BagToSet(crud'.mutations (-) crud.mutations) :
             m.method = "DELETE" => crud'.confirmed
       /\ (crud' # crud /\ crud'.op \in {"deleteSent", "deleteDeclined", "deleteRejected"})
             => fetches' = fetches /\ list' = list
       /\ Answered({"DELETE"}) # {} =>
             /\ crud'.op \in {"deleteFulfilled", "deleteRejected"}
             /\ crud'.op = "deleteFulfilled" =>
                   BagCardinality(fetches') = BagCardinality(fetches) + 1]_allVars

C26_Witness ==
    /\ listKind = "Coupons"
    /\ crud.op = "deleteRejected"
    /\ crud.alert = "Service unavailable"
    /\ list.rows = RowsOf(Query(1, "", ""))
    /\ ~list.isLoading
    /\ fetches = EmptyBag
    /\ crud.mutations = EmptyBag

(***************************************************************************)
(* CourseEditor (unnamed/part_003): the Save button with its two uploads.  *)
(* handleSave is one async function; `call` holds its position and the     *)
(* values it closed over when the button was pressed.                      *)
(***************************************************************************)

NewCoursePath == "/admin/courses/new"

NoFile == "no file"
CoverFiles == {"cover.png", "cover-2.png"}
PreviewFiles == {"preview.mp4"}

\* response.data.data.url of an upload
UploadUrl(file) == "/uploads/" \o file

\* formData.coverImage / previewVideoUrl of a new course and of a stored one
FormData(isNew) ==
    IF isNew THEN [coverImage |-> "", previewVideoUrl |-> ""]
    ELSE [coverImage |-> UploadUrl("old-cover.png"), previewVideoUrl |-> ""]

\* the fields of the course payload that come from the uploads
Payload(coverImageUrl, previewVideoUrl) ==
    [coverImage |-> coverImageUrl, previewVideoUrl |-> previewVideoUrl]

\* useState initial values (the course of an existing id already loaded).
\* log is history: the requests of the last handleSave call, in the order
\* they were sent and answered; alert is the text of the last alert box.
EditorMounted(isNew) ==
    [isNew              |-> isNew,
     formData           |-> FormData(isNew),
     coverImageFile     |-> NoFile,
     previewVideoFile   |-> NoFile,
     isUploadingCover   |-> FALSE,
     isUploadingPreview |-> FALSE,
     isSaving           |-> FALSE,
     error              |-> NoError,
     alert              |-> NoAlert,
     call               |-> <<>>,
     log                |-> <<>>]

\* handleSave from `const payload` to the await of the POST or PUT
SendCourse(ed, c) ==
    [ed EXCEPT !.call = <<[c EXCEPT !.stage = "save",
                                    !.payload = <<Payload(c.coverImageUrl, c.previewVideoUrl)>>]>>,
               !.log = Append(@, IF ed.isNew THEN "POST sent" ELSE "PUT sent")]

\* handleSave from `if (previewVideoFile)` on
AfterCover(ed, c) ==
    IF c.previewVideoFile # NoFile
    THEN [ed EXCEPT !.isUploadingPreview = TRUE,
                    !.call = <<[c EXCEPT !.stage = "uploadPreview"]>>,
                    !.log = Append(@, "upload-preview sent")]
    ELSE SendCourse(ed, c)

\* handleSave from `if (coverImageFile)` on
AfterStart(ed, c) ==
    IF c.coverImageFile # NoFile
    THEN [ed EXCEPT !.isUploadingCover = TRUE,
                    !.call = <<[c EXCEPT !.stage = "uploadCover"]>>,
                    !.log = Append(@, "upload-cover sent")]
    ELSE AfterCover(ed, c)

\* handleSave's catch and finally: setError(message || generic text);
\* setIsSaving(false)
SaveCatch(ed, err) ==
    [ed EXCEPT !.error = CatchText(CHOOSE h \in CatchHandlers :
                                      h.site = "CourseEditor.handleSave", err),
               !.isSaving = FALSE,
               !.call = <<>>]

EditorFrame == UNCHANGED <<dashKind, outcome, dash, listKind, list, fetches, listOp,
                           shown, hook, crud, loginPage>>

\* the file inputs and their remove buttons: setCoverImageFile(file | null)
PickCover ==
    /\ editor # <<>>
    /\ \E file \in (CoverFiles \cup {NoFile}) \ {editor.coverImageFile} :
          editor' = [editor EXCEPT !.coverImageFile = file]
    /\ UNCHANGED vars
    /\ EditorFrame

\* setPreviewVideoFile(file | null)
PickPreview ==
    /\ editor # <<>>
    /\ \E file \in (PreviewFiles \cup {NoFile}) \ {editor.previewVideoFile} :
          editor' = [editor EXCEPT !.previewVideoFile = file]
    /\ UNCHANGED vars
    /\ EditorFrame

\* handleSave up to its first await: setIsSaving(true); setError('');
\* the URLs start as those of formData.  The button is disabled while
\* isSaving.
HandleSave ==
    /\ editor # <<>>
    /\ ~editor.isSaving
    /\ editor' = AfterStart(
                    [editor EXCEPT !.isSaving = TRUE, !.error = NoError, !.log = <<>>],
                    [stage            |-> "start",
                     coverImageFile   |-> editor.coverImageFile,
                     previewVideoFile |-> editor.previewVideoFile,
                     coverImageUrl    |-> editor.formData.coverImage,
                     previewVideoUrl  |-> editor.formData.previewVideoUrl,
                     payload          |-> <<>>])
    /\ UNCHANGED vars
    /\ EditorFrame

\* handleUploadCover after its await, try branch and finally, then
\* handleSave continues with the returned URL
CoverUploaded ==
    /\ editor # <<>>
    /\ editor.call # <<>>
    /\ editor.call[1].stage = "uploadCover"
    /\ LET c == editor.call[1]
           url == UploadUrl(c.coverImageFile)
       IN editor' = AfterCover(
                       [editor EXCEPT !.formData.coverImage = url,
                                      !.coverImageFile = NoFile,
                                      !.isUploadingCover = FALSE,
                                      !.log = Append(@, "upload-cover ok")],
                       [c EXCEPT !.coverImageUrl = url])
    /\ UNCHANGED vars
    /\ EditorFrame

\* the faulty variant: the catch block does not rethrow, handleSave goes on
CoverUploadFailed_Swallowed ==
    /\ editor # <<>>
    /\ editor.call # <<>>
    /\ editor.call[1].stage = "uploadCover"
    /\ \E err \in MutationFailures :
          editor' = AfterCover(
                       [editor EXCEPT
                          !.alert = AlertText("CourseEditor", "handleUploadCover", err),
                          !.isUploadingCover = FALSE,
                          !.log = Append(@, "upload-cover failed")],
                       editor.call[1])
    /\ UNCHANGED vars
    /\ EditorFrame

\* handleUploadCover after its await, catch branch: alert, throw err,
\* finally setIsUploadingCover(false); then handleSave's catch and finally
CoverUploadFailed ==
    /\ editor # <<>>
    /\ editor.call # <<>>
    /\ editor.call[1].stage = "uploadCover"
    /\ \E err \in MutationFailures :
          editor' = SaveCatch(
                       [editor EXCEPT
                          !.alert = AlertText("CourseEditor", "handleUploadCover", err),
                          !.isUploadingCover = FALSE,
                          !.log = Append(@, "upload-cover failed")],
                       err)
    /\ UNCHANGED vars
    /\ EditorFrame

\* handleUploadPreview after its await, try branch and finally, then
\* handleSave continues with the returned URL
PreviewUploaded ==
    /\ editor # <<>>
    /\ editor.call # <<>>
    /\ editor.call[1].stage = "uploadPreview"
    /\ LET c == editor.call[1]
           url == UploadUrl(c.previewVideoFile)
       IN editor' = SendCourse(
                       [editor EXCEPT !.formData.previewVideoUrl = url,
                                      !.previewVideoFile = NoFile,
                                      !.isUploadingPreview = FALSE,
                                      !.log = Append(@, "upload-preview ok")],
                       [c EXCEPT !.previewVideoUrl = url])
    /\ UNCHANGED vars
    /\ EditorFrame

\* handleUploadPreview after its await, catch branch, then handleSave's
\* catch and finally
PreviewUploadFailed ==
    /\ editor # <<>>
    /\ editor.call # <<>>
    /\ editor.call[1].stage = "uploadPreview"
    /\ \E err \in MutationFailures :
          editor' = SaveCatch(
                       [editor EXCEPT
                          !.alert = AlertText("CourseEditor", "handleUploadPreview", err),
                          !.isUploadingPreview = FALSE,
                          !.log = Append(@, "upload-preview failed")],
                       err)
    /\ UNCHANGED vars
    /\ EditorFrame

\* the POST of a new course answered with success: navigate to the page of
\* the saved course, where the editor is mounted anew
CourseCreated ==
    /\ editor # <<>>
    /\ editor.call # <<>>
    /\ editor.call[1].stage = "save"
    /\ editor.isNew
    /\ editor' = [EditorMounted(FALSE) EXCEPT
                    !.formData = editor.call[1].payload[1],
                    !.alert = editor.alert,
                    !.log = Append(editor.log, "POST ok")]
    /\ location' = CourseEditorPath
    /\ guard' = <<[isLoggedIn |-> TRUE, children |-> CourseEditorPath,
                   result |-> ProtectedRoute(TRUE, CourseEditorPath)]>>
    /\ lastOp' = "navigate"
    /\ UNCHANGED <<authStore, durable, persistedUser, inflight, pending, loginTok, since401>>
    /\ EditorFrame

\* the PUT of an existing course answered with success: the course is
\* fetched again
CourseUpdated ==
    /\ editor # <<>>
    /\ editor.call # <<>>
    /\ editor.call[1].stage = "save"
    /\ ~editor.isNew
    /\ editor' = [editor EXCEPT !.call[1].stage = "refetch",
                                !.log = Append(Append(@, "PUT ok"), "GET sent")]
    /\ UNCHANGED vars
    /\ EditorFrame

\* the GET after the PUT answered with success: setCourse; finally
\* setIsSaving(false)
CourseRefetched ==
    /\ editor # <<>>
    /\ editor.call # <<>>
    /\ editor.call[1].stage = "refetch"
    /\ editor' = [editor EXCEPT !.isSaving = FALSE, !.call = <<>>,
                                !.log = Append(@, "GET ok")]
    /\ UNCHANGED vars
    /\ EditorFrame

\* the POST, the PUT or the GET after it failed: handleSave's catch and
\* finally
CourseSaveFailed ==
    /\ editor # <<>>
    /\ editor.call # <<>>
    /\ editor.call[1].stage \in {"save", "refetch"}
    /\ \E err \in MutationFailures :
          editor' = SaveCatch([editor EXCEPT !.log = Append(@, "save failed")], err)
    /\ UNCHANGED vars
    /\ EditorFrame

\* The editor was opened, for a new course or for a stored one.
EditorInit ==
    /\ \E isNew \in BOOLEAN :
          /\ SignedIn(IF isNew THEN NewCoursePath ELSE CourseEditorPath)
          /\ editor = EditorMounted(isNew)
    /\ DashUnmounted
    /\ ListUnmounted
    /\ NothingShown
    /\ hook = <<>> /\ crud = <<>> /\ loginPage = <<>>

EditorNext ==
    \/ PickCover
    \/ PickPreview
    \/ HandleSave
    \/ CoverUploaded
    \/ CoverUploadFailed
    \/ PreviewUploaded
    \/ PreviewUploadFailed
    \/ CourseCreated
    \/ CourseUpdated
    \/ CourseRefetched
    \/ CourseSaveFailed

EditorSpec == EditorInit /\ [][EditorNext]_allVars

\* C24: within one handleSave call the course POST/PUT is sent only after
\* the upload of every file that was selected has been answered with
\* success, and never after a failed upload; the payload carries the URL
\* each upload returned; after a failed upload nothing of the call is left
\* running, the error is set and isSaving is false.
C24_UploadThenSave ==
    LET log == editor.log
        Before(i, event) == \E j \in 1..(i - 1) : log[j] = event
    IN
    editor # <<>> =>
        /\ \A i \in 1..Len(log) :
              log[i] \in {"POST sent", "PUT sent"} =>
                  /\ ~Before(i, "upload-cover failed")
                  /\ ~Before(i, "upload-preview failed")
                  /\ Before(i, "upload-cover sent") => Before(i, "upload-cover ok")
                  /\ Before(i, "upload-preview sent") => Before(i, "upload-preview ok")
        /\ (editor.call # <<>> /\ editor.call[1].stage \in {"save", "refetch"}) =>
              LET c == editor.call[1] IN
              /\ c.coverImageFile # NoFile =>
                    /\ c.payload[1].coverImage = UploadUrl(c.coverImageFile)
                    /\ \E j \in 1..Len(log) : log[j] = "upload-cover ok"
              /\ c.previewVideoFile # NoFile =>
                    /\ c.payload[1].previewVideoUrl = UploadUrl(c.previewVideoFile)
                    /\ \E j \in 1..Len(log) : log[j] = "upload-preview ok"
        /\ (log # <<>> /\ log[Len(log)] \in {"upload-cover failed", "upload-preview failed"}) =>
              /\ editor.call = <<>>
              /\ editor.error # NoError
              /\ ~editor.isSaving

C24_Witness ==
    /\ editor # <<>>
    /\ editor.call # <<>>
    /\ editor.call[1].stage = "save"
    /\ editor.call[1].payload[1] = Payload(UploadUrl("cover-2.png"), UploadUrl("preview.mp4"))
    /\ editor.log = <<"upload-cover sent", "upload-cover ok",
                      "upload-preview sent", "upload-preview ok", "POST sent">>
    /\ editor.isSaving

(***************************************************************************)
(* The Login page as a component (pages/Login.tsx 21-62, 153-175): its     *)
(* rememberMe box, its submit button and the flag that disables it.        *)
(***************************************************************************)

\* what /auth/login is refused with: wrong credentials, or any other failure
LoginFailures == MutationFailures \cup {PageReply(Unauthorized, "Invalid credentials")}

\* useState initial values; call is the handleSubmit on its way, with the
\* rememberMe it closed over; op is history, the handler step taken last.
LoginPageMounted ==
    [rememberMe |-> FALSE, isLoading |-> FALSE, error |-> NoError, call |-> <<>>,
     op |-> "mount"]

LoginPageFrame == UNCHANGED <<dashKind, outcome, dash, listKind, list, fetches, listOp,
                              shown, hook, crud, editor>>

\* the user opens /login again: the page is mounted anew
LoginPageOpen ==
    /\ loginPage # <<>>
    /\ location # LoginPath
    /\ Render(LoginPath, authStore.isLoggedIn)
    /\ loginPage' = LoginPageMounted
    /\ lastOp' = "navigate"
    /\ UNCHANGED <<authStore, durable, inflight, pending, loginTok, since401>>
    /\ LoginPageFrame

\* the checkbox: setRememberMe(e.target.checked)
ToggleRememberMe ==
    /\ loginPage # <<>>
    /\ location = LoginPath
    /\ loginPage' = [loginPage EXCEPT !.rememberMe = ~@, !.op = "rememberMe"]
    /\ UNCHANGED vars
    /\ LoginPageFrame

\* handleSubmit up to its await: setError(''); setIsLoading(true).  The
\* button is disabled while isLoading.
LoginPageSubmit ==
    /\ loginPage # <<>>
    /\ location = LoginPath
    /\ ~loginPage.isLoading
    /\ loginPage' = [loginPage EXCEPT !.error = NoError,
                                      !.isLoading = TRUE,
                                      !.call = <<[rememberMe |-> loginPage.rememberMe]>>,
                                      !.op = "submit"]
    /\ UNCHANGED vars
    /\ LoginPageFrame

\* handleSubmit after its await, try branch: login(token, user), the token
\* written to the storage rememberMe selects, navigate; finally
\* setIsLoading(false)
LoginPageFulfilled ==
    /\ loginPage # <<>>
    /\ loginPage.call # <<>>
    /\ \E account \in Accounts :
          /\ login(account.token, account.user)
          /\ IF loginPage.call[1].rememberMe
             THEN localStorage' = account.token /\ UNCHANGED sessionStorage
             ELSE sessionStorage' = account.token /\ UNCHANGED localStorage
          /\ loginTok' = account.token
    /\ Render(DashboardPath, authStore'.isLoggedIn)
    /\ lastOp' = "login"
    /\ since401' = FALSE
    /\ loginPage' = [loginPage EXCEPT !.isLoading = FALSE, !.call = <<>>,
                                      !.op = "fulfilled"]
    /\ UNCHANGED <<inflight, pending>>
    /\ LoginPageFrame

\* the faulty variant: the flag is dropped in the try block only
LoginPageRejected_NoFinally ==
    /\ loginPage # <<>>
    /\ loginPage.call # <<>>
    /\ \E err \in LoginFailures :
          /\ IF err.status = Unauthorized
             THEN logout /\ loginTok' = NoToken /\ since401' = TRUE
             ELSE UNCHANGED <<authStore, durable, loginTok, since401>>
          /\ loginPage' = [loginPage EXCEPT
                             !.error = CatchText(CHOOSE h \in CatchHandlers :
                                                    h.site = "Login.handleSubmit", err),
                             !.call = <<>>,
                             !.op = "rejected"]
    /\ lastOp' = "catch"
    /\ UNCHANGED <<inflight, pending, location, guard>>
    /\ LoginPageFrame

\* handleSubmit after its await, catch branch: the response interceptor
\* has called logout() on a 401; setError(message || generic text); finally
\* setIsLoading(false)
LoginPageRejected ==
    /\ loginPage # <<>>
    /\ loginPage.call # <<>>
    /\ \E err \in LoginFailures :
          /\ IF err.status = Unauthorized
             THEN logout /\ loginTok' = NoToken /\ since401' = TRUE
             ELSE UNCHANGED <<authStore, durable, loginTok, since401>>
          /\ loginPage' = [loginPage EXCEPT
                             !.error = CatchText(CHOOSE h \in CatchHandlers :
                                                    h.site = "Login.handleSubmit", err),
                             !.isLoading = FALSE,
                             !.call = <<>>,
                             !.op = "rejected"]
    /\ lastOp' = "catch"
    /\ UNCHANGED <<inflight, pending, location, guard>>
    /\ LoginPageFrame

\* The Login page was opened with nobody signed in.
LoginPageInit ==
    /\ SignedOut(LoginPath)
    /\ DashUnmounted
    /\ ListUnmounted
    /\ NothingShown
    /\ hook = <<>> /\ crud = <<>> /\ editor = <<>>
    /\ loginPage = LoginPageMounted

LoginPageNext ==
    \/ LoginPageOpen
    \/ ToggleRememberMe
    \/ LoginPageSubmit
    \/ LoginPageFulfilled
    \/ LoginPageRejected

(***************************************************************************)
(* The pages that raise an in-progress flag around a request: the Login    *)
(* page, the list pages with their drawer, the course editor.  One of      *)
(* them is mounted.                                                        *)
(***************************************************************************)

PagesInit == LoginPageInit \/ CrudInit \/ EditorInit

PagesNext == LoginPageNext \/ CrudNext \/ EditorNext

PagesSpec == PagesInit /\ [][PagesNext]_allVars

\* the request that failed in this step of the course editor, if any
EditorFailure ==
    IF editor'.log # editor.log /\ editor'.log # <<>>
    THEN editor'.log[Len(editor'.log)] ELSE None

\* C21: the step that handles a failed request leaves the in-progress flag
\* of that request false, so the control it disables is enabled again:
\* isLoading of the Login page after a failed login, isLoading of a list
\* page after a failed list fetch, formLoading after a failed form submit,
\* isUploadingCover / isUploadingPreview and isSaving after a failed
\* upload, isSaving after a failed course save.
C21_FailureDropsFlag ==
    [][/\ (loginPage # <<>> /\ loginPage' # loginPage /\ loginPage'.op = "rejected")
             => ~loginPage'.isLoading /\ loginPage'.call = <<>>
       /\ (listKind # None /\ fetches' # fetches /\ listOp' = "fetchRejected")
             => ~list'.isLoading
       /\ (crud # <<>> /\ crud' # crud /\ crud'.op = "submitRejected")
             => ~crud'.formLoading
       /\ editor # <<>> =>
             /\ EditorFailure = "upload-cover failed"
                   => ~editor'.isUploadingCover /\ ~editor'.isSaving
             /\ EditorFailure = "upload-preview failed"
                   => ~editor'.isUploadingPreview /\ ~editor'.isSaving
             /\ EditorFailure = "save failed"
                   => ~editor'.isSaving /\ editor'.call = <<>>]_allVars

C21_Witness ==
    /\ loginPage # <<>>
    /\ loginPage.op = "rejected"
    /\ loginPage.error = "Invalid credentials"
    /\ ~loginPage.isLoading
    /\ loginPage.rememberMe
    /\ location = LoginPath
    /\ authStore = Anonymous

====
